---- MODULE Spec2Model ----
(***************************************************************************)
(* AIRC MCP server (src/index.js): the process-wide session, the registry  *)
(* client apiRequest, the eight tool operations and the CallTool handler.  *)
(*                                                                         *)
(* Conventions                                                             *)
(*   - a JS string is a tuple of fragments (single characters for agent    *)
(*     handles), so concatenation is \o and '' is << >>;                   *)
(*   - a JSON object is a function on the names of its present fields; a   *)
(*     field that is null or undefined is absent from the DOMAIN;          *)
(*   - every async function runs to its first await (the fetch inside      *)
(*     apiRequest) in one step and from the settled fetch to its return in *)
(*     another: JS runs each of the two synchronously, and other calls     *)
(*     interleave only between them.                                       *)
(***************************************************************************)
EXTENDS Integers, Sequences, FiniteSets, TLC

\* ---------------------------------------------------------------- bounds
MaxCalls == 3       \* tool invocations in one behaviour
MaxInFlight == 2    \* calls suspended on their fetch at the same time
MaxLen == 3         \* longest string given to the normalisation alone

\* ------------------------------------------------------------ JS helpers
Has(o, f) == f \in DOMAIN o

\* truthiness of a field, by the JSON type of its value
IsTrue(o, f) == Has(o, f) /\ o[f] = TRUE
NonEmpty(o, f) == Has(o, f) /\ o[f] # << >>
NonZero(o, f) == Has(o, f) /\ o[f] # 0

\* an object literal whose undefined properties JSON.stringify drops
Pick(o, fields) == [f \in (fields \cap DOMAIN o) |-> o[f]]

\* JSON.stringify: injective on the values of this model
Stringify(v) == [json |-> v]

\* String.prototype.replace with a string pattern of one character: the
\* first occurrence only, wherever it stands
Replace(str, pat, rep) ==
    IF \E i \in 1..Len(str) : str[i] = pat
    THEN LET i == CHOOSE k \in 1..Len(str) :
                      /\ str[k] = pat
                      /\ \A j \in 1..(k - 1) : str[j] # pat
         IN  SubSeq(str, 1, i - 1) \o rep \o SubSeq(str, i + 1, Len(str))
    ELSE str

\* the handle normalisation of send, consent and capabilities
normalize(handle) == Replace(handle, "@", << >>)

StartsWith(str, prefix) ==
    /\ Len(str) >= Len(prefix)
    /\ SubSeq(str, 1, Len(prefix)) = prefix

\* ------------------------------------------------------------- the state
VARIABLES
    session,   \* the module-level session object
    pending,   \* calls suspended on their fetch: [id, name (, handle)]
    nextId,    \* number of tool invocations so far, plus one
    nreq,      \* number of fetch calls issued so far
    lastReq,   \* the most recent fetch: [url, init]
    reply,     \* the most recent return of the handler: [call, envelope]
    got,       \* what the fetch of that call settled with
    granted,   \* tokens the registry has sent in a success:true response
    lastReg,   \* the last registration whose success response was processed
    nx, ny, nz, npc   \* normalisation applied on its own

vars == <<session, pending, nextId, nreq, lastReq, reply, got, granted,
          lastReg, nx, ny, nz, npc>>
normVars == <<nx, ny, nz, npc>>
toolVars == <<session, pending, nextId, nreq, lastReq, reply, got, granted,
              lastReg>>

REGISTRY == <<"https://registry.airc.chat">>

InitSession == [registered |-> FALSE]

\* ------------------------------------------------------- registry client
apiRequestNoAuth(endpoint, options) ==
    [url  |-> [base |-> REGISTRY] @@ endpoint,
     init |-> ("headers" :> ("Content-Type" :> <<"application/json">>))
                @@ options]

apiRequest(endpoint, options) ==
    LET base == "Content-Type" :> <<"application/json">>
        headers == IF NonEmpty(session, "token")
                   THEN base @@ ("Authorization" :>
                                    (<<"Bearer ">> \o session.token))
                   ELSE base
    IN  [url  |-> [base |-> REGISTRY] @@ endpoint,
         init |-> ("headers" :> headers) @@ options]

\* ------------------------------------------------------------ dispatcher
ResultEnvelope(result) ==
    [content |-> << [type |-> <<"text">>, text |-> Stringify(result)] >>]

ErrorEnvelopeNoFlag(message) ==
    [content |-> << [type |-> <<"text">>,
                     text |-> Stringify([error |-> message])] >>]

ErrorEnvelope(message) ==
    [content |-> << [type |-> <<"text">>,
                     text |-> Stringify([error |-> message])] >>,
     isError |-> TRUE]

TypeErrorReplace ==
    <<"Cannot read properties of undefined (reading 'replace')">>

\* ------------------------------------------------- inputs of the model
Tokens == {<<"T1">>, <<"T2">>}

RegisterArgs ==
    {[handle |-> <<"a">>],
     [handle |-> <<"@", "b">>, workingOn |-> <<"docs">>]}
SendArgs ==
    {[to |-> <<"@", "a">>, text |-> <<"hi">>],
     [text |-> <<"hi">>, type |-> <<"game">>]}
PollArgs == {[since |-> 0], [since |-> 5]}
ConsentArgs ==
    {[handle |-> <<"@", "a">>, action |-> <<"block">>],
     [action |-> <<"accept">>]}
DiscoverArgs == {<< >>, [capability |-> <<"text">>, available |-> FALSE]}
CapabilitiesArgs == {[handle |-> <<"@", "a">>], << >>}
UnknownNames == {"airc_unknown"}

\* bodies the registry may answer with, to any request
Responses ==
    {[success |-> TRUE, token |-> <<"T1">>,
      users |-> << <<"bob">> >>, messages |-> << <<"hello">> >>,
      agents |-> << [handle |-> <<"a">>, type |-> <<"bot">>] >>, total |-> 1,
      handle |-> <<"a">>,
      availability |-> [status |-> <<"offline">>, accepts_messages |-> FALSE]],
     [success |-> TRUE, token |-> <<"T2">>, total |-> 0],
     [success |-> FALSE, token |-> <<"T1">>, error |-> <<"taken">>],
     << >>,
     [success |-> TRUE, token |-> << >>]}

\* a fetch settles with a parsed body, or fetch / response.json() rejects
Outcomes ==
    {[kind |-> "json", body |-> r] : r \in Responses}
        \cup {[kind |-> "throw", message |-> <<"fetch failed">>]}

NoOutcome == [kind |-> "none"]

\* ------------------------------------------------------- tool operations
\* register, lines 68-75
RegistrationAcceptedTokenOnly(result) == NonEmpty(result, "token")

RegistrationAccepted(result) ==
    IsTrue(result, "success") /\ NonEmpty(result, "token")

RegisteredSessionFirstWins(handle, result) ==
    IF session.registered THEN session
    ELSE [handle |-> handle, token |-> result.token, registered |-> TRUE]

RegisteredSessionKeepsHandle(handle, result) ==
    [token |-> result.token, registered |-> TRUE]
        @@ (IF Has(session, "handle") THEN [handle |-> session.handle]
            ELSE [handle |-> handle])

RegisteredSession(handle, result) ==
    [handle |-> handle, token |-> result.token, registered |-> TRUE]

RegistrationErrorFixed(result) == <<"Registration failed">>

RegistrationError(result) ==
    IF NonEmpty(result, "error") THEN result.error
    ELSE <<"Registration failed">>

registerResult(handle, result) ==
    IF RegistrationAccepted(result)
    THEN [success |-> TRUE, message |-> <<"Registered as @">> \o handle]
    ELSE [success |-> FALSE, error |-> RegistrationError(result)]

\* the guard of send, poll, heartbeat and consent
NotRegisteredNever == FALSE

NotRegistered == ~session.registered

NotRegisteredLong ==
    [success |-> FALSE,
     error |-> <<"Not registered", ". Call airc_register first.">>]
NotRegisteredShort ==
    [success |-> FALSE, error |-> <<"Not registered", ".">>]

whoResult(result) == IF Has(result, "users") THEN result.users ELSE << >>

pollResult(result) ==
    IF Has(result, "messages") THEN result.messages ELSE << >>

discoverParams(options) ==
    (IF NonEmpty(options, "capability")
     THEN "capability" :> options.capability ELSE << >>)
    @@ (IF NonEmpty(options, "type") THEN "type" :> options.type ELSE << >>)
    @@ (IF NonEmpty(options, "model") THEN "model" :> options.model ELSE << >>)
    @@ (IF NonEmpty(options, "query") THEN "q" :> options.query ELSE << >>)
    @@ (IF ~(Has(options, "available") /\ options.available = FALSE)
        THEN "available" :> <<"true">> ELSE << >>)
    @@ ("limit" :> (IF NonEmpty(options, "limit") THEN options.limit
                    ELSE <<"10">>))

discoverResult(result) ==
    IF ~IsTrue(result, "success")
    THEN [success |-> FALSE,
          error |-> IF NonEmpty(result, "error") THEN result.error
                    ELSE <<"Discovery failed">>]
    ELSE [success |-> TRUE,
          agents |-> IF Has(result, "agents")
                     THEN [i \in DOMAIN result.agents |->
                             ("handle" :> (<<"@">> \o result.agents[i].handle))
                             @@ Pick(result.agents[i],
                                     {"type", "model", "capabilities",
                                      "status", "working_on"})]
                     ELSE << >>,
          suggestion |->
              IF Has(result, "total") /\ result.total = 0
              THEN <<"No agents found. Try a broader search or check back later.">>
              ELSE <<"Found ",
                     IF Has(result, "total") THEN ToString(result.total)
                     ELSE "undefined",
                     " agent(s). Use airc_capabilities to learn more about a specific agent.">>]
         @@ Pick(result, {"total"})

\* result.a?.b || dflt
Opt(result, a, b, dflt) ==
    IF Has(result, a) /\ NonEmpty(result[a], b) THEN result[a][b] ELSE dflt

capabilitiesResult(result) ==
    IF NonEmpty(result, "error")
    THEN [success |-> FALSE, error |-> result.error]
         @@ Pick(result, {"message"})
    ELSE [success |-> TRUE,
          handle |-> <<"@">> \o (IF Has(result, "handle") THEN result.handle
                                 ELSE <<"undefined">>),
          capabilities |-> Opt(result, "capabilities", "supported",
                               << <<"text">> >>),
          primary_capability |-> Opt(result, "capabilities", "primary",
                                     <<"text">>),
          availability |-> Opt(result, "availability", "status",
                               <<"unknown">>),
          accepts_messages |->
              ~(/\ Has(result, "availability")
                /\ Has(result.availability, "accepts_messages")
                /\ result.availability.accepts_messages = FALSE),
          suggestion |->
              IF Opt(result, "availability", "status", << >>) = <<"offline">>
              THEN <<"Agent is offline. Message will be delivered when they return.">>
              ELSE <<"Agent is available. Use airc_send to message them.">>]
         @@ Pick(result, {"is_agent", "type", "model", "input_schemas",
                          "examples"})

\* ------------------------------------------------------------ behaviour
\* a property `name` holding o[f]; null (absent) when o has no f
Field(name, o, f) == IF Has(o, f) THEN name :> o[f] ELSE << >>

Init ==
    /\ session = InitSession
    /\ pending = {}
    /\ nextId = 1
    /\ nreq = 0
    /\ lastReq = << >>
    /\ reply = [call |-> [id |-> 0, name |-> "none"], envelope |-> << >>]
    /\ got = NoOutcome
    /\ granted = {}
    /\ lastReg = << >>
    /\ nx = << >> /\ ny = << >> /\ nz = << >> /\ npc = 0

Call(name) == [id |-> nextId, name |-> name]

\* the handler returns without having awaited a fetch
ReturnNow(name, envelope) ==
    /\ nextId <= MaxCalls
    /\ reply' = [call |-> Call(name), envelope |-> envelope]
    /\ got' = NoOutcome
    /\ nextId' = nextId + 1
    /\ UNCHANGED <<session, pending, nreq, lastReq, granted, lastReg>>
    /\ UNCHANGED normVars

\* the handler reaches `await fetch(url, init)` and is suspended there
Fetch(call, request) ==
    /\ nextId <= MaxCalls
    /\ Cardinality(pending) < MaxInFlight
    /\ pending' = pending \cup {call}
    /\ nreq' = nreq + 1
    /\ lastReq' = request
    /\ nextId' = nextId + 1
    /\ UNCHANGED <<session, reply, got, granted, lastReg>>
    /\ UNCHANGED normVars

\* case 'airc_register' up to the fetch
CallRegister(args) ==
    Fetch(Call("airc_register") @@ [handle |-> args.handle],
          apiRequest([path |-> <<"/api/presence">>],
                     [method |-> <<"POST">>,
                      body |-> Stringify(
                          [action |-> <<"register">>,
                           username |-> args.handle,
                           workingOn |-> IF Has(args, "workingOn")
                                         THEN args.workingOn
                                         ELSE <<"Using AIRC MCP">>])]))

\* case 'airc_who'
CallWho == Fetch(Call("airc_who"), apiRequest([path |-> <<"/api/presence">>], << >>))

\* case 'airc_send'
CallSend(args) ==
    IF NotRegistered
    THEN ReturnNow("airc_send", ResultEnvelope(NotRegisteredLong))
    ELSE IF ~Has(args, "to")
    THEN ReturnNow("airc_send", ErrorEnvelope(TypeErrorReplace))
    ELSE Fetch(Call("airc_send"),
               apiRequest([path |-> <<"/api/messages">>],
                          [method |-> <<"POST">>,
                           body |-> Stringify(
                               Field("from", session, "handle")
                               @@ [to |-> normalize(args.to),
                                   text |-> args.text,
                                   type |-> IF Has(args, "type") THEN args.type
                                            ELSE <<"text">>])]))

\* case 'airc_poll'
CallPoll(args) ==
    IF NotRegistered
    THEN ReturnNow("airc_poll", ResultEnvelope(NotRegisteredLong))
    ELSE Fetch(Call("airc_poll"),
               apiRequest([path |-> <<"/api/messages">>,
                           query |-> Field("user", session, "handle")
                                     @@ (IF NonZero(args, "since")
                                         THEN "since" :> args.since
                                         ELSE << >>)],
                          << >>))

\* case 'airc_heartbeat'
CallHeartbeat ==
    IF NotRegistered
    THEN ReturnNow("airc_heartbeat", ResultEnvelope(NotRegisteredShort))
    ELSE Fetch(Call("airc_heartbeat"),
               apiRequest([path |-> <<"/api/presence">>],
                          [method |-> <<"POST">>,
                           body |-> Stringify(
                               [action |-> <<"heartbeat">>]
                               @@ Field("username", session, "handle"))]))

\* case 'airc_consent'
CallConsent(args) ==
    IF NotRegistered
    THEN ReturnNow("airc_consent", ResultEnvelope(NotRegisteredShort))
    ELSE IF ~Has(args, "handle")
    THEN ReturnNow("airc_consent", ErrorEnvelope(TypeErrorReplace))
    ELSE Fetch(Call("airc_consent"),
               apiRequest([path |-> <<"/api/consent">>],
                          [method |-> <<"POST">>,
                           body |-> Stringify(
                               Field("from", session, "handle")
                               @@ [action |-> IF Has(args, "action")
                                              THEN args.action
                                              ELSE <<"accept">>,
                                   handle |-> normalize(args.handle)])]))

\* case 'airc_discover'
CallDiscover(args) ==
    Fetch(Call("airc_discover"),
          apiRequest([path |-> <<"/api/agents">>,
                      query |-> discoverParams(
                          Pick(args, {"capability", "query", "type", "model",
                                      "available"}))],
                     << >>))

\* case 'airc_capabilities'
CallCapabilities(args) ==
    IF ~Has(args, "handle")
    THEN ReturnNow("airc_capabilities", ErrorEnvelope(TypeErrorReplace))
    ELSE Fetch(Call("airc_capabilities"),
               apiRequest([path |-> <<"/api/identity/">>
                                    \o normalize(args.handle)
                                    \o <<"/capabilities">>],
                          << >>))

\* default: throw new Error(`Unknown tool: ${name}`)
CallUnknown(name) ==
    ReturnNow(name, ErrorEnvelope(<<"Unknown tool: ", name>>))

\* the registry's answer reaches a suspended call, which runs to its return
Finish(c, o, envelope) ==
    /\ pending' = pending \ {c}
    /\ got' = o
    /\ reply' = [call |-> c, envelope |-> envelope]
    /\ granted' = IF /\ o.kind = "json"
                     /\ IsTrue(o.body, "success")
                     /\ NonEmpty(o.body, "token")
                  THEN granted \cup {o.body.token}
                  ELSE granted
    /\ UNCHANGED <<nextId, nreq, lastReq>>
    /\ UNCHANGED normVars

\* fetch or response.json() rejects: the catch of the handler
Reject(c, o) ==
    /\ c \in pending
    /\ o.kind = "throw"
    /\ Finish(c, o, ErrorEnvelope(o.message))
    /\ UNCHANGED <<session, lastReg>>

RegisterSettle(c, o) ==
    /\ c \in pending
    /\ c.name = "airc_register"
    /\ o.kind = "json"
    /\ session' = IF RegistrationAccepted(o.body)
                  THEN RegisteredSession(c.handle, o.body)
                  ELSE session
    /\ lastReg' = IF IsTrue(o.body, "success") /\ NonEmpty(o.body, "token")
                  THEN [id |-> c.id, handle |-> c.handle,
                        token |-> o.body.token]
                  ELSE lastReg
    /\ Finish(c, o, ResultEnvelope(registerResult(c.handle, o.body)))

\* who, send, poll, heartbeat, consent, discover, capabilities after the await
Shaped(name, result) ==
    CASE name = "airc_who" -> whoResult(result)
      [] name = "airc_poll" -> pollResult(result)
      [] name = "airc_discover" -> discoverResult(result)
      [] name = "airc_capabilities" -> capabilitiesResult(result)
      [] OTHER -> result

Settle(c, o) ==
    /\ c \in pending
    /\ c.name # "airc_register"
    /\ o.kind = "json"
    /\ Finish(c, o, ResultEnvelope(Shaped(c.name, o.body)))
    /\ UNCHANGED <<session, lastReg>>

Next ==
    \/ \E args \in RegisterArgs : CallRegister(args)
    \/ CallWho
    \/ \E args \in SendArgs : CallSend(args)
    \/ \E args \in PollArgs : CallPoll(args)
    \/ CallHeartbeat
    \/ \E args \in ConsentArgs : CallConsent(args)
    \/ \E args \in DiscoverArgs : CallDiscover(args)
    \/ \E args \in CapabilitiesArgs : CallCapabilities(args)
    \/ \E name \in UnknownNames : CallUnknown(name)
    \/ \E c \in pending, o \in Outcomes : RegisterSettle(c, o)
    \/ \E c \in pending, o \in Outcomes : Settle(c, o)
    \/ \E c \in pending, o \in Outcomes : Reject(c, o)

Spec == Init /\ [][Next]_vars

\* ------------------------------------- the normalisation on its own
Chars == {"@", "a", "b"}

RECURSIVE Strings(_)
Strings(n) ==
    IF n = 0 THEN {<< >>}
    ELSE Strings(n - 1)
         \cup {Append(s, ch) : s \in {t \in Strings(n - 1) : Len(t) = n - 1},
                               ch \in Chars}

InitNorm ==
    /\ session = InitSession
    /\ pending = {}
    /\ nextId = 1
    /\ nreq = 0
    /\ lastReq = << >>
    /\ reply = [call |-> [id |-> 0, name |-> "none"], envelope |-> << >>]
    /\ got = NoOutcome
    /\ granted = {}
    /\ lastReg = << >>
    /\ nx \in Strings(MaxLen)
    /\ ny = nx /\ nz = nx /\ npc = 0

NormOnce ==
    /\ npc = 0
    /\ ny' = normalize(nx)
    /\ npc' = 1
    /\ UNCHANGED <<nx, nz>>
    /\ UNCHANGED toolVars

NormTwice ==
    /\ npc = 1
    /\ nz' = normalize(ny)
    /\ npc' = 2
    /\ UNCHANGED <<nx, ny>>
    /\ UNCHANGED toolVars

NextNorm == NormOnce \/ NormTwice

SpecNorm == InitNorm /\ [][NextNorm]_vars

\* ------------------------------------------------------------ the tools
\* the catalog of ListTools
Catalog ==
    {"airc_register", "airc_who", "airc_send", "airc_poll", "airc_heartbeat",
     "airc_consent", "airc_discover", "airc_capabilities"}

\* the operations that start with the registration guard
Gated == {"airc_send", "airc_poll", "airc_heartbeat", "airc_consent"}

\* ---------------------------------------------------- reading the state
\* this step returns a call to the transport
Returns == reply'.call.id # reply.call.id

\* the registry answered the returned call with success true and a token
GotToken(o) ==
    /\ o.kind = "json"
    /\ IsTrue(o.body, "success")
    /\ NonEmpty(o.body, "token")

\* the returned call is a register answered by a body without that
GotRefusal(o) ==
    /\ o.kind = "json"
    /\ ~(IsTrue(o.body, "success") /\ NonEmpty(o.body, "token"))

BodyOf(req) ==
    IF Has(req, "init") /\ Has(req.init, "body") THEN req.init.body.json
    ELSE << >>

\* a field of the request's JSON body, << >> when it has none
BodyField(req, f) == IF Has(BodyOf(req), f) THEN BodyOf(req)[f] ELSE << >>

HeadersOf(req) == IF Has(req, "init") THEN req.init.headers ELSE << >>

\* the agent handles a request carries
RequestHandles(req) ==
    LET body == BodyOf(req)
        url == IF Has(req, "url") THEN req.url ELSE << >>
        query == IF Has(url, "query") THEN url.query ELSE << >>
    IN  {body[f] : f \in {"username", "from", "to", "handle"} \cap DOMAIN body}
        \cup {query[f] : f \in {"user"} \cap DOMAIN query}
        \cup (IF Has(url, "path") /\ Head(url.path) = "/api/identity/"
              THEN {SubSeq(url.path, 2, Len(url.path) - 1)}
              ELSE {})

\* ------------------------------------------------------------ the claims
\* C1: while session.registered is false, an invocation of send, poll,
\* heartbeat or consent never reaches the fetch: it returns at once the
\* result {success:false, error} with an error text that begins with
\* "Not registered", not flagged isError, and no request is issued.
C1_UnregisteredShortCircuit ==
    [][(~session.registered) =>
          /\ \A c \in pending' \ pending : c.name \notin Gated
          /\ (Returns /\ reply'.call.name \in Gated) =>
                /\ nreq' = nreq
                /\ lastReq' = lastReq
                /\ pending' = pending
                /\ \E r \in {NotRegisteredLong, NotRegisteredShort} :
                      /\ reply'.envelope = ResultEnvelope(r)
                      /\ r.success = FALSE
                      /\ StartsWith(r.error, <<"Not registered">>)]_vars

\* a send refused for want of a registration, after a registration was
\* attempted (its request went out) and did not succeed
C1_Witness ==
    /\ ~session.registered
    /\ reply.call.name = "airc_send"
    /\ reply.envelope = ResultEnvelope(NotRegisteredLong)
    /\ nreq >= 1
    /\ BodyField(lastReq, "action") = <<"register">>
    /\ pending = {}

\* C2: in every reachable state registered is true iff the session holds a
\* token, and a held token is one the registry sent in a response with
\* success true.
C2_RegisteredIffToken ==
    /\ session.registered <=> Has(session, "token")
    /\ Has(session, "token") =>
          /\ session.token # << >>
          /\ session.token \in granted

\* a registered session that has just seen a register answered with
\* success false and a token
C2_Witness ==
    /\ session.registered
    /\ reply.call.name = "airc_register"
    /\ got.kind = "json"
    /\ ~IsTrue(got.body, "success")
    /\ NonEmpty(got.body, "token")

\* C3: when register(h) is answered with success true and a token T, the
\* session is {handle: h, token: T, registered: true} and the call returns
\* {success:true, message:"Registered as @h"}, whatever the session was.
C3_RegisterSuccess ==
    (reply.call.name = "airc_register" /\ GotToken(got)) =>
        /\ session = [handle |-> reply.call.handle,
                      token |-> got.body.token,
                      registered |-> TRUE]
        /\ reply.envelope =
              ResultEnvelope([success |-> TRUE,
                              message |-> <<"Registered as @">>
                                          \o reply.call.handle])

\* register("@b") succeeds with T2 over a session registered as "a": the
\* heartbeat issued in between still carried "a"
C3_Witness ==
    /\ reply.call.name = "airc_register"
    /\ reply.call.handle = <<"@", "b">>
    /\ GotToken(got)
    /\ got.body.token = <<"T2">>
    /\ BodyField(lastReq, "action") = <<"heartbeat">>
    /\ BodyField(lastReq, "username") = <<"a">>
    /\ session.handle = <<"@", "b">>

\* C4: when register is answered with a body that reports no success or
\* carries no token, the step leaves handle, token and registered as they
\* were and the call returns {success:false, error}, error being the
\* registry's error text when it sent one and 'Registration failed' if not.
C4_RegisterFailure ==
    [][(Returns /\ reply'.call.name = "airc_register" /\ GotRefusal(got')) =>
          /\ session' = session
          /\ reply'.envelope =
                ResultEnvelope(
                    [success |-> FALSE,
                     error |-> IF NonEmpty(got'.body, "error")
                               THEN got'.body.error
                               ELSE <<"Registration failed">>])]_vars

\* a register answered "success" without a usable token, the session
\* still unregistered
C4_Witness ==
    /\ reply.call.name = "airc_register"
    /\ got.kind = "json"
    /\ IsTrue(got.body, "success")
    /\ ~NonEmpty(got.body, "token")
    /\ ~session.registered
    /\ reply.envelope =
          ResultEnvelope([success |-> FALSE,
                          error |-> <<"Registration failed">>])

\* C5: no handle carried by an outbound request starts with '@'.
C5_NoAtInRequests ==
    \A h \in RequestHandles(lastReq) : ~StartsWith(h, <<"@">>)

\* C6: normalisation is idempotent on every string, and sends "@a" and "a"
\* to "a".
C6_NormalizeIdempotent ==
    /\ npc = 2 => nz = ny
    /\ (npc >= 1 /\ nx \in {<<"@", "a">>, <<"a">>}) => ny = <<"a">>

\* C7: a request carries an Authorization header iff the session holds a
\* token when it is issued, the header being "Bearer " and that token; no
\* request issued before a registration has succeeded carries one, and
\* each one issued after carries the token of the last registration whose
\* success was processed.
C7_BearerFollowsSession ==
    [][(nreq' # nreq) =>
          LET headers == HeadersOf(lastReq')
          IN  /\ Has(headers, "Authorization") <=> Has(session, "token")
              /\ Has(session, "token") =>
                    headers["Authorization"] = <<"Bearer ">> \o session.token
              /\ (lastReg = << >>) => ~Has(headers, "Authorization")
              /\ (lastReg # << >>) =>
                    /\ Has(headers, "Authorization")
                    /\ headers["Authorization"]
                          = <<"Bearer ">> \o lastReg.token]_vars

\* the third call is a register whose request carries the token of the
\* second call, a registration that succeeded
C7_Witness ==
    /\ nreq = 3
    /\ lastReg # << >>
    /\ lastReg.id = 2
    /\ BodyField(lastReq, "action") = <<"register">>
    /\ Has(HeadersOf(lastReq), "Authorization")
    /\ HeadersOf(lastReq)["Authorization"] = <<"Bearer ">> \o lastReg.token
    /\ \E c \in pending : c.id = 3 /\ c.name = "airc_register"

\* C8: a call whose fetch rejects, or whose tool name is not in the
\* catalog, returns an envelope with isError true and one text element that
\* carries the exception's message (naming the unknown tool); every return
\* flagged isError leaves the session as it was; and after it the handler
\* still takes invocations.
C8_DispatcherCatches ==
    /\ [][Returns =>
             /\ (got'.kind = "throw") =>
                   reply'.envelope = ErrorEnvelope(got'.message)
             /\ (reply'.call.name \notin Catalog) =>
                   /\ reply'.envelope =
                         [content |-> << [type |-> <<"text">>,
                                          text |-> Stringify(
                                              [error |-> <<"Unknown tool: ",
                                                           reply'.call.name>>])] >>,
                          isError |-> TRUE]
                   /\ nreq' = nreq
             /\ (got'.kind = "throw" \/ reply'.call.name \notin Catalog
                   \/ Has(reply'.envelope, "isError")) =>
                   /\ session' = session
                   /\ Has(reply'.envelope, "isError")
                   /\ reply'.envelope.isError = TRUE
                   /\ Len(reply'.envelope.content) = 1]_vars
    /\ []((Has(reply.envelope, "isError") /\ nextId <= MaxCalls) =>
             ENABLED Next)

\* a register whose fetch failed, returned as an error envelope, with the
\* registered session still in place
C8_Witness ==
    /\ reply.call.name = "airc_register"
    /\ got.kind = "throw"
    /\ reply.envelope = ErrorEnvelope(<<"fetch failed">>)
    /\ session.registered
    /\ session.handle # reply.call.handle

\* C9: once no register is in flight, the session holds the handle and the
\* token of the registration whose success response was processed last,
\* and registered is true.
C9_LastWriteWins ==
    (lastReg # << >> /\ \A c \in pending : c.name # "airc_register") =>
        session = [handle |-> lastReg.handle, token |-> lastReg.token,
                   registered |-> TRUE]

\* two registers in flight together, both answered with success, the one
\* issued first processed last: its handle and token are the session's
C9_Witness ==
    /\ nextId = 3 /\ nreq = 2 /\ pending = {}
    /\ granted = Tokens
    /\ reply.call.id = 1
    /\ reply.call.name = "airc_register"
    /\ lastReg # << >>
    /\ lastReg.id = 1
    /\ BodyField(lastReq, "action") = <<"register">>
    /\ BodyField(lastReq, "username") # reply.call.handle
    /\ ~Has(HeadersOf(lastReq), "Authorization")
    /\ session.handle = reply.call.handle

\* C10: the session starts {registered: false} with no handle and no
\* token; a step changes it only if it returns a register that the registry
\* answered with success true and a token; registered, once true, stays.
C10_SessionFrame ==
    /\ session = InitSession
    /\ [][(session' # session) =>
             /\ Returns
             /\ reply'.call.name = "airc_register"
             /\ GotToken(got')]_vars
    /\ [][session.registered => session'.registered]_vars

\* a send answered with success true and another token: the session keeps
\* the token of its registration
C10_Witness ==
    /\ session.registered
    /\ reply.call.name = "airc_send"
    /\ GotToken(got)
    /\ got.body.token # session.token

\* the identity a request of send, consent, heartbeat or poll carries: its
\* from, its username or its user
IdentityOf(req) ==
    LET body == BodyOf(req)
        query == IF Has(req, "url") /\ Has(req.url, "query")
                 THEN req.url.query ELSE << >>
    IN  {body[f] : f \in {"from", "username"} \cap DOMAIN body}
        \cup {query[f] : f \in {"user"} \cap DOMAIN query}

\* C11: in every state the session is the initial one or holds the handle
\* and the token that one successful registration (the last processed)
\* wrote together; and every request issued by send, heartbeat, poll or
\* consent carries exactly that handle as its identity and that token in
\* its Authorization header, whatever registrations are in flight.
C11_CoherentIdentity ==
    /\ [](IF lastReg = << >>
          THEN session = InitSession
          ELSE session = [handle |-> lastReg.handle,
                          token |-> lastReg.token,
                          registered |-> TRUE])
    /\ [][(\E c \in pending' \ pending : c.name \in Gated) =>
             /\ lastReg # << >>
             /\ IdentityOf(lastReq') = {lastReg.handle}
             /\ Has(HeadersOf(lastReq'), "Authorization")
             /\ HeadersOf(lastReq')["Authorization"]
                   = <<"Bearer ">> \o lastReg.token]_vars

\* a send issued while register("@b") is still in flight: it carries "a"
\* and the token of the registration of "a", processed before
C11_Witness ==
    /\ \E c \in pending : /\ c.name = "airc_register"
                          /\ c.id = 2
                          /\ c.handle = <<"@", "b">>
    /\ \E c \in pending : c.name = "airc_send" /\ c.id = 3
    /\ lastReg # << >>
    /\ lastReg.id = 1
    /\ lastReg.handle = <<"a">>
    /\ BodyField(lastReq, "from") = <<"a">>
    /\ BodyField(lastReq, "to") = <<"a">>
    /\ HeadersOf(lastReq)["Authorization"] = <<"Bearer ">> \o lastReg.token

====
